---- MODULE Spec2Model ----
(***************************************************************************)
(* State-machine model of the ReadyFood Farm REST backend                  *)
(* (src/src/index.ts and the mongoose schemas under src/src/models).       *)
(*                                                                         *)
(* The persisted state is the Users, Products, Orders and Categories       *)
(* collections.                                                            *)
(* Every request is one action: the auth gate (verifyToken) followed by    *)
(* the route handler, run to completion.  `last` is the request that was   *)
(* served last together with the response it got.  Where handlers are      *)
(* interleaved, `inflight` holds the handlers that are suspended at an     *)
(* await, each with what it has read and built so far.                     *)
(*                                                                         *)
(* Optional values (a body field that may be omitted, pricing.discount,    *)
(* the decoded claims) are sequences of length at most one:                *)
(* << >> is "absent/undefined", <<v>> is "present with value v".           *)
(***************************************************************************)
EXTENDS Integers, Sequences, FiniteSets, TLC

VARIABLES users, products, orders, categories, inflight, last

vars == <<users, products, orders, categories, inflight, last>>

\* ---------------------------------------------------------------- bounds
\* Largest quantity a cart line is allowed to reach in the model.
MaxQty == 2
\* Largest number of orders the Orders collection holds in the model.
MaxOrders == 1

\* ------------------------------------------------------------- constants
\* CartItemSchema.quantity / OrderItemSchema.quantity: { min: 1 }
MinQuantity == 1

None == << >>
Some(v) == <<v>>

\* Emails.  "a@x" and "b@x" are registered users, "c@x" has no user
\* record.  Requests come from "a@x" and "c@x"; "b@x" is the other user,
\* whose record the requests of the callers must leave alone.
Emails == {"a@x", "b@x", "c@x"}
Callers == {"a@x", "c@x"}
ProductIds == {"p1", "p2"}

\* req.body.quantity of POST /api/cart: omitted, or a number.
Quantities == {None} \cup {Some(n) : n \in -1..MaxQty}

\* The Authorization header of a request: absent, a bearer token that
\* jwt.verify rejects (bad signature or expired; its payload still names
\* an email), or a bearer token that verifies.
NoHeader == [kind |-> "none", email |-> "-"]
BadToken == [kind |-> "invalid", email |-> "a@x"]
Bearer(e) == [kind |-> "valid", email |-> e]
Headers == {NoHeader, BadToken} \cup {Bearer(e) : e \in Callers}

\* pricing sub-documents a product can be given
Pricings ==
  { [regular |-> 2, discount |-> None],
    [regular |-> 2, discount |-> Some(1)],
    [regular |-> 1, discount |-> Some(0)] }

\* A deleted product: the document is gone, its id is never reused.
Deleted == [live |-> FALSE, pricing |-> [regular |-> 0, discount |-> None], status |-> FALSE]
Product(pr, st) == [live |-> TRUE, pricing |-> pr, status |-> st]

NewUser(e) == [email |-> e, role |-> "user", cart |-> << >>, wishlist |-> << >>]

\* ------------------------------------------------------------ auth gate
\* verifyToken with the signature and expiry check left out (the payload
\* is decoded, never verified).
VerifyTokenUnverified(h) ==
  IF h.kind = "none" THEN [ok |-> FALSE, decoded |-> None]
  ELSE [ok |-> TRUE, decoded |-> Some(h.email)]

\* verifyToken: 401 without a header, 401 when jwt.verify reports an
\* error, otherwise the decoded claims are attached and next() runs.
VerifyToken(h) ==
  IF h.kind = "none" THEN [ok |-> FALSE, decoded |-> None]
  ELSE IF h.kind # "valid" THEN [ok |-> FALSE, decoded |-> None]
  ELSE [ok |-> TRUE, decoded |-> Some(h.email)]

\* The request served last and its response: the route, the kind of
\* Authorization header, the claims the gate attached, whether the handler
\* ran, the status code, and the productId and quantity of the request
\* where the current handlers went on to use them.
Response(route, h, v, ran, status, productId, quantity) ==
  [route |-> route, auth |-> h.kind, decoded |-> v.decoded, ran |-> ran,
   status |-> status, productId |-> productId, quantity |-> quantity]

\* The gate answered 401: the handler does not run, nothing is written.
Reject(route, h, v) ==
  /\ last' = Response(route, h, v, FALSE, 401, None, None)
  /\ UNCHANGED <<users, products, orders, categories, inflight>>

\* ------------------------------------------------------------ the store
\* findOne with the email filter left out: the first user of the
\* collection.
FindOneAnyUser(us, email) == IF Len(us) > 0 THEN 1 ELSE 0

\* User.findOne({ email }): index of the first user with that email, 0 if
\* there is none.
FindOneByEmail(us, email) ==
  IF \E i \in 1..Len(us) : us[i].email = email
  THEN CHOOSE i \in 1..Len(us) :
         /\ us[i].email = email
         /\ \A j \in 1..(i - 1) : us[j].email # email
  ELSE 0

\* populate('cart.product'): the product document, or null when the
\* reference does not resolve.
Populate(ps, productId) ==
  IF ps[productId].live THEN Some(ps[productId]) ELSE None

\* ------------------------------------------------------------------ cart
\* user.cart.findIndex(item => item.product.toString() === productId):
\* position of the first line for productId, 0 for JavaScript's -1.
CartIndex(cart, productId) ==
  IF \E i \in 1..Len(cart) : cart[i].product = productId
  THEN CHOOSE i \in 1..Len(cart) :
         /\ cart[i].product = productId
         /\ \A j \in 1..(i - 1) : cart[j].product # productId
  ELSE 0

\* Number(quantity) || 1 for a new line: 1 when quantity is omitted (NaN)
\* or is 0, the number otherwise.
NewLineQuantity(quantity) ==
  IF quantity # None /\ quantity[1] # 0 THEN quantity[1] ELSE 1

\* The update of an existing line with the increment left out.
UpdatedQuantityNoIncrement(old, quantity) ==
  IF quantity # None THEN quantity[1] ELSE 1

\* The quantity of a line that is already in the cart: set to the number
\* when quantity is given, incremented by one when it is omitted.
UpdatedQuantity(old, quantity) ==
  IF quantity # None THEN quantity[1] ELSE old + 1

\* user.cart.filter(item => item.quantity > 0)
QuantityFilter(cart) == SelectSeq(cart, LAMBDA item : item.quantity > 0)

\* The in-memory cart POST /api/cart builds from the cart it read.
CartAfterPost(cart, productId, quantity) ==
  LET cartItemIndex == CartIndex(cart, productId)
      mutated ==
        IF cartItemIndex > 0
        THEN [cart EXCEPT ![cartItemIndex].quantity = UpdatedQuantity(@, quantity)]
        ELSE Append(cart, [product |-> productId,
                           quantity |-> NewLineQuantity(quantity)])
  IN QuantityFilter(mutated)

\* CartItemSchema with min: 0.
CartItemValidMinZero(item) == item.quantity >= 0

\* CartItemSchema validation run by user.save().
CartItemValid(item) == item.quantity >= MinQuantity
CartValid(cart) == \A k \in 1..Len(cart) : CartItemValid(cart[k])

\* The model keeps quantities within MaxQty.
CartBounded(cart) == \A k \in 1..Len(cart) : cart[k].quantity <= MaxQty

\* GET /api/cart
GetCart(h) ==
  LET route == "GET /api/cart"
      v == VerifyToken(h)
  IN IF ~v.ok THEN Reject(route, h, v)
     ELSE LET i == FindOneByEmail(users, v.decoded[1]) IN
          /\ last' = Response(route, h, v, TRUE, IF i = 0 THEN 404 ELSE 200, None, None)
          /\ UNCHANGED <<users, products, orders, categories, inflight>>

\* POST /api/cart
PostCart(h, productId, quantity) ==
  LET route == "POST /api/cart"
      v == VerifyToken(h)
  IN IF ~v.ok THEN Reject(route, h, v)
     ELSE LET i == FindOneByEmail(users, v.decoded[1]) IN
          IF i = 0
          THEN /\ last' = Response(route, h, v, TRUE, 404, None, None)
               /\ UNCHANGED <<users, products, orders, categories, inflight>>
          ELSE LET cart == CartAfterPost(users[i].cart, productId, quantity) IN
               /\ CartBounded(cart)
               /\ IF CartValid(cart)
                  THEN /\ users' = [users EXCEPT ![i].cart = cart]
                       /\ last' = Response(route, h, v, TRUE, 200, Some(productId), quantity)
                  ELSE /\ users' = users
                       /\ last' = Response(route, h, v, TRUE, 500, Some(productId), quantity)
               /\ UNCHANGED <<products, orders, categories, inflight>>

\* POST /api/cart as the earlier revision of the route table has it:
\* quantity is added to an existing line (NaN when omitted, which the
\* save rejects), a new line takes it as given (the schema default 1 when
\* omitted); nothing is filtered, user.save() validates.
PostCartRev1(h, productId, quantity) ==
  LET route == "POST /api/cart (rev1)"
      v == VerifyToken(h)
  IN IF ~v.ok THEN Reject(route, h, v)
     ELSE LET i == FindOneByEmail(users, v.decoded[1]) IN
          IF i = 0
          THEN /\ last' = Response(route, h, v, TRUE, 404, None, None)
               /\ UNCHANGED <<users, products, orders, categories, inflight>>
          ELSE LET cartItemIndex == CartIndex(users[i].cart, productId)
                   isNaN == cartItemIndex > 0 /\ quantity = None
                   cart ==
                     IF cartItemIndex > 0
                     THEN [users[i].cart EXCEPT ![cartItemIndex].quantity =
                             IF quantity = None THEN @ ELSE @ + quantity[1]]
                     ELSE Append(users[i].cart,
                                 [product |-> productId,
                                  quantity |-> IF quantity = None THEN 1 ELSE quantity[1]])
               IN
               /\ CartBounded(cart)
               /\ IF ~isNaN /\ CartValid(cart)
                  THEN /\ users' = [users EXCEPT ![i].cart = cart]
                       /\ last' = Response(route, h, v, TRUE, 200, None, None)
                  ELSE /\ users' = users
                       /\ last' = Response(route, h, v, TRUE, 500, None, None)
               /\ UNCHANGED <<products, orders, categories, inflight>>

\* DELETE /api/cart/:productId:
\* findOneAndUpdate({ email }, { $pull: { cart: { product } } }); answers
\* 200 also when no user matches.
DeleteCart(h, productId) ==
  LET route == "DELETE /api/cart/:productId"
      v == VerifyToken(h)
  IN IF ~v.ok THEN Reject(route, h, v)
     ELSE LET i == FindOneByEmail(users, v.decoded[1]) IN
          /\ users' = IF i = 0 THEN users
                      ELSE [users EXCEPT ![i].cart =
                              SelectSeq(@, LAMBDA item : item.product # productId)]
          /\ last' = Response(route, h, v, TRUE, 200, Some(productId), None)
          /\ UNCHANGED <<products, orders, categories, inflight>>

\* -------------------------------------------------------------- wishlist
\* $push in the place of $addToSet: the id is appended whether or not the
\* list has it.
AddToSetPush(list, x) == Append(list, x)

\* $addToSet
AddToSet(list, x) ==
  IF \E k \in 1..Len(list) : list[k] = x THEN list ELSE Append(list, x)

\* GET /api/wishlist
GetWishlist(h) ==
  LET route == "GET /api/wishlist"
      v == VerifyToken(h)
  IN IF ~v.ok THEN Reject(route, h, v)
     ELSE LET i == FindOneByEmail(users, v.decoded[1]) IN
          /\ last' = Response(route, h, v, TRUE, IF i = 0 THEN 404 ELSE 200, None, None)
          /\ UNCHANGED <<users, products, orders, categories, inflight>>

\* POST /api/wishlist:
\* findOneAndUpdate({ email }, { $addToSet: { wishlist: productId } });
\* answers 200 also when no user matches.
PostWishlist(h, productId) ==
  LET route == "POST /api/wishlist"
      v == VerifyToken(h)
  IN IF ~v.ok THEN Reject(route, h, v)
     ELSE LET i == FindOneByEmail(users, v.decoded[1]) IN
          /\ users' = IF i = 0 THEN users
                      ELSE [users EXCEPT ![i].wishlist = AddToSet(@, productId)]
          /\ last' = Response(route, h, v, TRUE, 200, Some(productId), None)
          /\ UNCHANGED <<products, orders, categories, inflight>>

\* ---------------------------------------------------------------- orders
\* product.pricing.discount || product.pricing.regular: the discount when
\* it is truthy (set and not 0), the regular price otherwise.
EffectivePrice(pricing) ==
  IF pricing.discount # None /\ pricing.discount[1] # 0
  THEN pricing.discount[1]
  ELSE pricing.regular

\* An order line that does not carry the cart line's quantity.
OrderItemUnitQuantity(cartItem, price) ==
  [product |-> cartItem.product, quantity |-> 1, price |-> price]

\* The order line pushed for a cart line whose product resolved.
OrderItem(cartItem, price) ==
  [product |-> cartItem.product, quantity |-> cartItem.quantity, price |-> price]

\* totalAmount += price
LineAmountUnitPrice(price, quantity) == price

\* totalAmount += price * cartItem.quantity
LineAmount(price, quantity) == price * quantity

\* The loop over user.cart: a line whose product did not resolve adds
\* neither an item nor an amount.
RECURSIVE OrderLoop(_, _, _, _)
OrderLoop(cart, ps, orderItems, totalAmount) ==
  IF cart = << >>
  THEN [items |-> orderItems, totalAmount |-> totalAmount]
  ELSE LET cartItem == Head(cart)
           product == Populate(ps, cartItem.product)
       IN IF product # None
          THEN LET price == EffectivePrice(product[1].pricing) IN
               OrderLoop(Tail(cart), ps,
                         Append(orderItems, OrderItem(cartItem, price)),
                         totalAmount + LineAmount(price, cartItem.quantity))
          ELSE OrderLoop(Tail(cart), ps, orderItems, totalAmount)

\* A guard that also turns away a cart none of whose products resolves.
CartIsEmptyOrUnresolved(us, i) ==
  \/ i = 0
  \/ \A k \in 1..Len(us[i].cart) : Populate(products, us[i].cart[k].product) = None

\* The guard without the length test.
CartIsEmptyNoLengthTest(us, i) == i = 0

\* if (!user || !user.cart || user.cart.length === 0)
CartIsEmpty(us, i) == i = 0 \/ Len(us[i].cart) = 0

\* OrderSchema validation run by newOrder.save(): every item has a
\* quantity of at least 1, and the five shippingAddress fields are there.
OrderValid(order, addressComplete) ==
  /\ \A k \in 1..Len(order.items) : order.items[k].quantity >= MinQuantity
  /\ addressComplete

\* POST /api/orders.  addressComplete: the body carries a shippingAddress
\* with all required fields.
PostOrders(h, addressComplete) ==
  LET route == "POST /api/orders"
      v == VerifyToken(h)
  IN IF ~v.ok THEN Reject(route, h, v)
     ELSE LET i == FindOneByEmail(users, v.decoded[1]) IN
          IF CartIsEmpty(users, i)
          THEN /\ last' = Response(route, h, v, TRUE, 400, None, None)
               /\ UNCHANGED <<users, products, orders, categories, inflight>>
          ELSE LET built == OrderLoop(users[i].cart, products, << >>, 0)
                   newOrder == [user |-> i,
                                items |-> built.items,
                                totalAmount |-> built.totalAmount,
                                paymentStatus |-> "pending",
                                orderStatus |-> "pending"]
               IN IF OrderValid(newOrder, addressComplete)
                  THEN /\ Len(orders) < MaxOrders
                       /\ orders' = Append(orders, newOrder)
                       /\ users' = [users EXCEPT ![i].cart = << >>]
                       /\ last' = Response(route, h, v, TRUE, 201, None, None)
                       /\ UNCHANGED <<products, categories, inflight>>
                  ELSE /\ last' = Response(route, h, v, TRUE, 500, None, None)
                       /\ UNCHANGED <<users, products, orders, categories, inflight>>

\* -------------------------------------------------------------- products
\* PATCH /api/products/:id that also reprices the order lines of the
\* product, as a handler that kept order lines in step with the catalogue
\* would.
PatchProductRepricingOrders(h, id, pricing) ==
  LET route == "PATCH /api/products/:id"
      v == VerifyToken(h)
  IN IF ~v.ok THEN Reject(route, h, v)
     ELSE IF ~products[id].live
     THEN /\ last' = Response(route, h, v, TRUE, 404, Some(id), None)
          /\ UNCHANGED <<users, products, orders, categories, inflight>>
     ELSE /\ products' = [products EXCEPT ![id].pricing = pricing]
          /\ orders' = [k \in 1..Len(orders) |->
                          [orders[k] EXCEPT !.items =
                             [n \in 1..Len(@) |->
                                IF @[n].product = id
                                THEN [@[n] EXCEPT !.price = EffectivePrice(pricing)]
                                ELSE @[n]]]]
          /\ last' = Response(route, h, v, TRUE, 200, Some(id), None)
          /\ UNCHANGED <<users, categories, inflight>>

\* PATCH /api/products/:id with a body that replaces the pricing
\* sub-document: Product.findByIdAndUpdate(id, updates).
PatchProduct(h, id, pricing) ==
  LET route == "PATCH /api/products/:id"
      v == VerifyToken(h)
  IN IF ~v.ok THEN Reject(route, h, v)
     ELSE IF ~products[id].live
     THEN /\ last' = Response(route, h, v, TRUE, 404, Some(id), None)
          /\ UNCHANGED <<users, products, orders, categories, inflight>>
     ELSE /\ products' = [products EXCEPT ![id].pricing = pricing]
          /\ last' = Response(route, h, v, TRUE, 200, Some(id), None)
          /\ UNCHANGED <<users, orders, categories, inflight>>

\* PATCH /api/products/status/:id with a boolean status.
PatchProductStatus(h, id, status) ==
  LET route == "PATCH /api/products/status/:id"
      v == VerifyToken(h)
  IN IF ~v.ok THEN Reject(route, h, v)
     ELSE IF ~products[id].live
     THEN /\ last' = Response(route, h, v, TRUE, 404, Some(id), None)
          /\ UNCHANGED <<users, products, orders, categories, inflight>>
     ELSE /\ products' = [products EXCEPT ![id].status = status]
          /\ last' = Response(route, h, v, TRUE, 200, Some(id), None)
          /\ UNCHANGED <<users, orders, categories, inflight>>

\* DELETE /api/products/:id
DeleteProduct(h, id) ==
  LET route == "DELETE /api/products/:id"
      v == VerifyToken(h)
  IN IF ~v.ok THEN Reject(route, h, v)
     ELSE IF ~products[id].live
     THEN /\ last' = Response(route, h, v, TRUE, 404, Some(id), None)
          /\ UNCHANGED <<users, products, orders, categories, inflight>>
     ELSE /\ products' = [products EXCEPT ![id] = Deleted]
          /\ last' = Response(route, h, v, TRUE, 200, Some(id), None)
          /\ UNCHANGED <<users, orders, categories, inflight>>

\* -------------------------------------------------------- specifications
\* No request served yet.
NoRequest ==
  [route |-> "-", auth |-> "none", decoded |-> None, ran |-> FALSE,
   status |-> 0, productId |-> None, quantity |-> None]

\* The carts user.save() accepts: at most one line per product, every
\* quantity between MinQuantity and MaxQty.
ValidCarts ==
  { c \in UNION { [1..n -> [product : ProductIds, quantity : MinQuantity..MaxQty]] :
                    n \in 0..Cardinality(ProductIds) } :
      \A j, k \in 1..Len(c) : j # k => c[j].product # c[k].product }

\* The record of "b@x": a cart and a wishlist left by earlier requests.
Bystander ==
  [email |-> "b@x", role |-> "user",
   cart |-> << [product |-> "p2", quantity |-> 2], [product |-> "p1", quantity |-> 1] >>,
   wishlist |-> << "p2" >>]

\* Carts, wishlists and orders over a catalogue that does not change:
\* p1 is on sale, p2 was deleted.
Init ==
  /\ users = << NewUser("a@x"), Bystander >>
  /\ products = [p \in ProductIds |->
                   IF p = "p1" THEN Product([regular |-> 2, discount |-> Some(1)], TRUE)
                   ELSE Deleted]
  /\ orders = << >>
  /\ categories = << >>
  /\ inflight = << >>
  /\ last = NoRequest

\* The values of a body or path field tried with header h: all of S under
\* a token that verifies, one of them otherwise (the gate answers before
\* the field is read).
Tried(h, S) == IF h.kind = "valid" THEN S ELSE {CHOOSE x \in S : TRUE}

Next ==
  \/ \E h \in Headers : GetCart(h)
  \/ \E h \in Headers :
       \E p \in Tried(h, ProductIds), q \in Tried(h, Quantities) : PostCart(h, p, q)
  \/ \E h \in Headers :
       \E p \in Tried(h, ProductIds), q \in Tried(h, Quantities) : PostCartRev1(h, p, q)
  \/ \E h \in Headers : \E p \in Tried(h, ProductIds) : DeleteCart(h, p)
  \/ \E h \in Headers : GetWishlist(h)
  \/ \E h \in Headers : \E p \in Tried(h, ProductIds) : PostWishlist(h, p)
  \/ \E h \in Headers : \E a \in Tried(h, BOOLEAN) : PostOrders(h, a)

Spec == Init /\ [][Next]_vars

\* Orders over a catalogue that changes: "a@x" holds any cart it can
\* have built, every product is live with some pricing, and products are
\* repriced, published and deleted around the order.
InitCatalogue ==
  /\ \E c \in ValidCarts : users = << [NewUser("a@x") EXCEPT !.cart = c], Bystander >>
  /\ products \in [ProductIds -> {Product(pr, FALSE) : pr \in Pricings}]
  /\ orders = << >>
  /\ categories = << >>
  /\ inflight = << >>
  /\ last = NoRequest

NextCatalogue ==
  \/ \E h \in Headers : \E a \in Tried(h, BOOLEAN) : PostOrders(h, a)
  \/ \E h \in Headers :
       \E id \in Tried(h, ProductIds), pr \in Tried(h, Pricings) : PatchProduct(h, id, pr)
  \/ \E h \in Headers :
       \E id \in Tried(h, ProductIds), st \in Tried(h, BOOLEAN) : PatchProductStatus(h, id, st)
  \/ \E h \in Headers : \E id \in Tried(h, ProductIds) : DeleteProduct(h, id)

SpecCatalogue == InitCatalogue /\ [][NextCatalogue]_vars

\* ------------------------------------------------------- users and roles
\* UserSchema.role: enum ['user', 'admin'], default 'user'
Roles == {"user", "admin"}
DefaultRole == "user"

\* Firebase uids a sign-up body can carry.
Uids == {"u1", "u2"}

\* req.body of POST /api/users: the email, the uid (may be missing), the
\* role (may be missing, may be outside the enum) and whether the other
\* required fields (name, phone) are there.
UserBodies ==
  [email : Emails, uid : {None} \cup {Some(u) : u \in Uids},
   role : {None, Some("user"), Some("admin"), Some("superuser")},
   complete : BOOLEAN]

\* req.body.role of PATCH /api/users/:id/role
RoleInputs == {None, Some("user"), Some("admin"), Some("superuser")}

\* _id values of the Users collection and one that no user has.
UserIds == 1..(Cardinality(Uids) + 1)

\* The response of a handler that ran: the request fields it read and the
\* JSON body it sent.
Reply(route, h, v, status, request, body) ==
  [route |-> route, auth |-> h.kind, decoded |-> v.decoded, ran |-> TRUE,
   status |-> status, request |-> request, body |-> body]

\* What a route without verifyToken in front of it starts from.
Open == [ok |-> TRUE, decoded |-> None]

\* new User(userData): the schema defaults fill what the body leaves out.
UserDocument(userData) ==
  [email |-> userData.email,
   role |-> IF userData.role = None THEN DefaultRole ELSE userData.role[1],
   cart |-> << >>, wishlist |-> << >>, uid |-> userData.uid]

\* newUser.save(): the required fields are there, the role is in the enum,
\* and the unique indexes on uid and email admit the document.
UserSaveOk(us, userData, doc) ==
  /\ userData.uid # None
  /\ userData.complete
  /\ doc.role \in Roles
  /\ \A i \in 1..Len(us) : us[i].uid # doc.uid /\ us[i].email # doc.email

\* POST /api/users without the findOne: every request goes to save().
PostUsersNoLookup(userData) ==
  LET route == "POST /api/users"
      newUser == UserDocument(userData)
  IN IF ~UserSaveOk(users, userData, newUser)
     THEN /\ last' = Reply(route, NoHeader, Open, 500, userData,
                           [message |-> "Failed to create user."])
          /\ UNCHANGED <<users, products, orders, categories, inflight>>
     ELSE /\ users' = Append(users, newUser)
          /\ last' = Reply(route, NoHeader, Open, 201, userData, newUser)
          /\ UNCHANGED <<products, orders, categories, inflight>>

\* POST /api/users (no auth gate): 200 and a message when a user has the
\* email, otherwise new User(userData).save() and 201 with the document;
\* a save that throws is answered 500.
PostUsers(userData) ==
  LET route == "POST /api/users"
      existingUser == FindOneByEmail(users, userData.email)
      newUser == UserDocument(userData)
  IN IF existingUser # 0
     THEN /\ last' = Reply(route, NoHeader, Open, 200, userData,
                           [message |-> "User already exists."])
          /\ UNCHANGED <<users, products, orders, categories, inflight>>
     ELSE IF ~UserSaveOk(users, userData, newUser)
     THEN /\ last' = Reply(route, NoHeader, Open, 500, userData,
                           [message |-> "Failed to create user."])
          /\ UNCHANGED <<users, products, orders, categories, inflight>>
     ELSE /\ users' = Append(users, newUser)
          /\ last' = Reply(route, NoHeader, Open, 201, userData, newUser)
          /\ UNCHANGED <<products, orders, categories, inflight>>

\* user?.role === 'admin' for the result of findOne (0: no user).
IsAdmin(us, i) == i # 0 /\ us[i].role = "admin"

\* GET /api/users/admin/:email without the comparison of the path email
\* with the token's email.
GetAdminAnyEmail(h, email) ==
  LET route == "GET /api/users/admin/:email"
      v == VerifyToken(h)
  IN IF ~v.ok THEN Reject(route, h, v)
     ELSE /\ last' = Reply(route, h, v, 200, [email |-> email],
                           [isAdmin |-> IsAdmin(users, FindOneByEmail(users, email))])
          /\ UNCHANGED <<users, products, orders, categories, inflight>>

\* GET /api/users/admin/:email: 403 when the path email is not the
\* token's, otherwise 200 with { isAdmin }.
GetAdmin(h, email) ==
  LET route == "GET /api/users/admin/:email"
      v == VerifyToken(h)
  IN IF ~v.ok THEN Reject(route, h, v)
     ELSE IF email # v.decoded[1]
     THEN /\ last' = Reply(route, h, v, 403, [email |-> email],
                           [message |-> "forbidden access"])
          /\ UNCHANGED <<users, products, orders, categories, inflight>>
     ELSE /\ last' = Reply(route, h, v, 200, [email |-> email],
                           [isAdmin |-> IsAdmin(users, FindOneByEmail(users, email))])
          /\ UNCHANGED <<users, products, orders, categories, inflight>>

\* PATCH /api/users/:id/role without the test of the role against
\* ['user', 'admin'].
PatchRoleAnyRole(h, id, role) ==
  LET route == "PATCH /api/users/:id/role"
      v == VerifyToken(h)
      request == [id |-> id, role |-> role]
  IN IF ~v.ok THEN Reject(route, h, v)
     ELSE IF role = None
     THEN /\ last' = Reply(route, h, v, 400, request, [message |-> "Invalid role provided."])
          /\ UNCHANGED <<users, products, orders, categories, inflight>>
     ELSE IF id \notin 1..Len(users)
     THEN /\ last' = Reply(route, h, v, 404, request, [message |-> "User not found."])
          /\ UNCHANGED <<users, products, orders, categories, inflight>>
     ELSE /\ users' = [users EXCEPT ![id].role = role[1]]
          /\ last' = Reply(route, h, v, 200, request, users'[id])
          /\ UNCHANGED <<products, orders, categories, inflight>>

\* PATCH /api/users/:id/role: 400 unless the role is 'user' or 'admin',
\* then User.findByIdAndUpdate(id, { role }, { new: true }): 404 when no
\* user has the id, otherwise 200 with the updated document.
PatchRole(h, id, role) ==
  LET route == "PATCH /api/users/:id/role"
      v == VerifyToken(h)
      request == [id |-> id, role |-> role]
  IN IF ~v.ok THEN Reject(route, h, v)
     ELSE IF role = None \/ role[1] \notin {"user", "admin"}
     THEN /\ last' = Reply(route, h, v, 400, request, [message |-> "Invalid role provided."])
          /\ UNCHANGED <<users, products, orders, categories, inflight>>
     ELSE IF id \notin 1..Len(users)
     THEN /\ last' = Reply(route, h, v, 404, request, [message |-> "User not found."])
          /\ UNCHANGED <<users, products, orders, categories, inflight>>
     ELSE /\ users' = [users EXCEPT ![id].role = role[1]]
          /\ last' = Reply(route, h, v, 200, request, users'[id])
          /\ UNCHANGED <<products, orders, categories, inflight>>

\* Sign-up, the admin check and the role change over a Users collection
\* that starts empty.
InitUsers ==
  /\ users = << >>
  /\ products = [p \in ProductIds |-> Deleted]
  /\ orders = << >>
  /\ categories = << >>
  /\ inflight = << >>
  /\ last = NoRequest

NextUsers ==
  \/ \E userData \in UserBodies : PostUsers(userData)
  \/ \E h \in Headers : \E e \in Tried(h, Emails) : GetAdmin(h, e)
  \/ \E h \in Headers :
       \E id \in Tried(h, UserIds), r \in Tried(h, RoleInputs) : PatchRole(h, id, r)

SpecUsers == InitUsers /\ [][NextUsers]_vars

\* process.env.ACCESS_TOKEN_SECRET of the deployment: the secret every
\* token is signed and verified with.
AccessTokenSecret == Some("secret")

\* A role change that first looks the caller up and answers 403 unless
\* the caller's stored role is admin.
PatchRoleAdminOnly(h, id, role) ==
  LET route == "PATCH /api/users/:id/role"
      v == VerifyToken(h)
      request == [id |-> id, role |-> role]
  IN IF ~v.ok THEN Reject(route, h, v)
     ELSE IF ~IsAdmin(users, FindOneByEmail(users, v.decoded[1]))
     THEN /\ last' = Reply(route, h, v, 403, request, [message |-> "forbidden access"])
          /\ UNCHANGED <<users, products, orders, categories, inflight>>
     ELSE PatchRole(h, id, role)

\* PATCH /api/users/:id/role as the routes table has it: verifyToken, then
\* the handler.
PatchRoleRoute(h, id, role) == PatchRole(h, id, role)

\* POST /jwt (no auth gate): the body is signed as it is, for one hour,
\* and the token sent back; 500 when the secret is not configured.  The
\* body is not compared with any user record.
PostJwt(user) ==
  LET route == "POST /jwt"
  IN /\ IF AccessTokenSecret = None
        THEN last' = Reply(route, NoHeader, Open, 500, user,
                           [message |-> "JWT secret not configured!"])
        ELSE last' = Reply(route, NoHeader, Open, 200, user,
                           [token |-> Bearer(user.email)])
     /\ UNCHANGED <<users, products, orders, categories, inflight>>

\* Sign-up, token minting and the role change.  A role change is sent
\* without a token, with a token that does not verify, or with the token
\* the client was just given by POST /jwt.
NextRoles ==
  \/ \E userData \in UserBodies : PostUsers(userData)
  \/ \E e \in Emails : PostJwt([email |-> e])
  \/ \E h \in {NoHeader, BadToken} : PatchRoleRoute(h, 1, Some("admin"))
  \/ /\ last.route = "POST /jwt"
     /\ last.status = 200
     /\ \E id \in UserIds, r \in RoleInputs : PatchRoleRoute(last.body.token, id, r)

SpecRoles == InitUsers /\ [][NextRoles]_vars

\* ------------------------------------------------------------ categories
\* Strings are sequences of one-character strings.
UpperCase == {"A", "R"}
LowerCase == {"a", "d", "n", "r", "t"}
Digits == {"1", "2", "7"}
WhiteSpace == {" "}

\* toLowerCase() of one character
ToLowerChar(c) == IF c = "A" THEN "a" ELSE IF c = "R" THEN "r" ELSE c

\* String.prototype.toLowerCase()
ToLowerCase(str) == [i \in 1..Len(str) |-> ToLowerChar(str[i])]

\* str.replace(/ & /g, '-'): every " & ", found left to right, becomes "-".
RECURSIVE ReplaceSpacedAmp(_)
ReplaceSpacedAmp(str) ==
  IF str = << >> THEN << >>
  ELSE IF Len(str) >= 3 /\ SubSeq(str, 1, 3) = <<" ", "&", " ">>
  THEN <<"-">> \o ReplaceSpacedAmp(SubSeq(str, 4, Len(str)))
  ELSE <<Head(str)>> \o ReplaceSpacedAmp(Tail(str))

\* str.replace(/&/g, 'and')
RECURSIVE ReplaceAmp(_)
ReplaceAmp(str) ==
  IF str = << >> THEN << >>
  ELSE IF Head(str) = "&" THEN <<"a", "n", "d">> \o ReplaceAmp(Tail(str))
  ELSE <<Head(str)>> \o ReplaceAmp(Tail(str))

\* str.replace(/[^a-z0-9\s-]/g, '')
Strip(str) ==
  SelectSeq(str, LAMBDA c : c \in LowerCase \cup Digits \cup WhiteSpace \cup {"-"})

\* str.replace(/\s+/g, '-') with set = WhiteSpace and str.replace(/-+/g, '-')
\* with set = {"-"}: every maximal run of characters of the set becomes
\* one "-".
RECURSIVE Squeeze(_, _)
Squeeze(str, set) ==
  IF str = << >> THEN << >>
  ELSE IF Head(str) \notin set THEN <<Head(str)>> \o Squeeze(Tail(str), set)
  ELSE IF Len(str) >= 2 /\ str[2] \in set THEN Squeeze(Tail(str), set)
  ELSE <<"-">> \o Squeeze(Tail(str), set)

\* The slug of the current category routes:
\* name.toLowerCase().replace(/ & /g, '-').replace(/\s+/g, '-')
PlainSlug(name) == Squeeze(ReplaceSpacedAmp(ToLowerCase(name)), WhiteSpace)

\* generateSlug with the last replace, of hyphen runs, left out.
GenerateSlugKeepingRuns(name, now) ==
  Squeeze(Strip(ReplaceAmp(ToLowerCase(name))), WhiteSpace) \o <<"-">> \o now

\* generateSlug(name): the base slug, a hyphen and Date.now().
generateSlug(name, now) ==
  LET baseSlug ==
        Squeeze(Squeeze(Strip(ReplaceAmp(ToLowerCase(name))), WhiteSpace), {"-"})
  IN baseSlug \o <<"-">> \o now

\* Largest number of categories ever created in the model.
MaxCategories == 2

\* _id values of the Categories collection and one that no category has.
CategoryIds == 1..(MaxCategories + 1)

\* req.body.name of the category routes: missing, or a string.
CategoryNames == {<<"R">>, <<"r">>, <<"R", " ", "&", " ", "t">>}
NameInputs == {None} \cup {Some(n) : n \in CategoryNames}

\* req.body.parentId: missing, or the id of a category.
ParentInputs == {None} \cup {Some(id) : id \in 1..MaxCategories}

\* req.body.image and req.body.isNav: missing, or a value.
ImageInputs == {None, Some("i")}
NavInputs == {None, Some(TRUE), Some(FALSE)}

\* Date.now() as a digit string.
Clock == {<<"1">>, <<"2">>}

\* The administrator's requests.
StaffHeaders == {NoHeader, BadToken, Bearer("a@x")}

\* A category document, and a deleted one (its id is never reused).
Category(name, slug, isNav, image, parentId) ==
  [live |-> TRUE, name |-> name, slug |-> slug, isNav |-> isNav,
   image |-> image, parentId |-> parentId]
DeletedCategory ==
  [live |-> FALSE, name |-> << >>, slug |-> << >>, isNav |-> FALSE,
   image |-> None, parentId |-> None]

\* The unique indexes on name and slug: no other category has the name or
\* the slug (id is the document being written, 0 for a new one).
CategoryUnique(cs, id, name, slug) ==
  \A k \in 1..Len(cs) :
    (cs[k].live /\ k # id) => (cs[k].name # name /\ cs[k].slug # slug)

\* POST /api/categories: 400 without a name, otherwise the slug is derived
\* and the category saved (201); every error, the duplicate key error of
\* the unique indexes included, is answered 500.
PostCategory(h, name, isNav, image) ==
  LET route == "POST /api/categories"
      v == VerifyToken(h)
      request == [id |-> 0, name |-> name]
      slug == PlainSlug(name[1])
      newCategory == Category(name[1], slug,
                              IF isNav = None THEN FALSE ELSE isNav[1], image, None)
  IN IF ~v.ok THEN Reject(route, h, v)
     ELSE IF name = None \/ name[1] = << >>
     THEN /\ last' = Reply(route, h, v, 400, request, [message |-> "Category name is required."])
          /\ UNCHANGED <<users, products, orders, categories, inflight>>
     ELSE IF ~CategoryUnique(categories, 0, name[1], slug)
     THEN /\ last' = Reply(route, h, v, 500, request, [message |-> "Server error creating category."])
          /\ UNCHANGED <<users, products, orders, categories, inflight>>
     ELSE /\ Len(categories) < MaxCategories
          /\ categories' = Append(categories, newCategory)
          /\ last' = Reply(route, h, v, 201, request, newCategory)
          /\ UNCHANGED <<users, products, orders, inflight>>

\* PATCH /api/categories/:id: name (with the slug derived again), image and
\* isNav are updated when the body has them; 404 when no category has the
\* id; every error is answered 500.
PatchCategory(h, id, name, image, isNav) ==
  LET route == "PATCH /api/categories/:id"
      v == VerifyToken(h)
      request == [id |-> id, name |-> name, image |-> image, isNav |-> isNav]
      named == name # None /\ name[1] # << >>
      old == categories[id]
      updatedCategory ==
        [old EXCEPT !.name = IF named THEN name[1] ELSE @,
                    !.slug = IF named THEN PlainSlug(name[1]) ELSE @,
                    !.image = IF image # None THEN image ELSE @,
                    !.isNav = IF isNav # None THEN isNav[1] ELSE @]
  IN IF ~v.ok THEN Reject(route, h, v)
     ELSE IF id \notin 1..Len(categories) \/ ~categories[id].live
     THEN /\ last' = Reply(route, h, v, 404, request, [message |-> "Category not found."])
          /\ UNCHANGED <<users, products, orders, categories, inflight>>
     ELSE IF ~CategoryUnique(categories, id, updatedCategory.name, updatedCategory.slug)
     THEN /\ last' = Reply(route, h, v, 500, request, [message |-> "Server error updating category."])
          /\ UNCHANGED <<users, products, orders, categories, inflight>>
     ELSE /\ categories' = [categories EXCEPT ![id] = updatedCategory]
          /\ last' = Reply(route, h, v, 200, request, updatedCategory)
          /\ UNCHANGED <<users, products, orders, inflight>>

\* DELETE /api/categories/:id: Category.findByIdAndDelete(id), 404 when no
\* category has the id.
DeleteCategory(h, id) ==
  LET route == "DELETE /api/categories/:id"
      v == VerifyToken(h)
      request == [id |-> id, name |-> None]
  IN IF ~v.ok THEN Reject(route, h, v)
     ELSE IF id \notin 1..Len(categories) \/ ~categories[id].live
     THEN /\ last' = Reply(route, h, v, 404, request, [message |-> "Category not found."])
          /\ UNCHANGED <<users, products, orders, categories, inflight>>
     ELSE /\ categories' = [categories EXCEPT ![id] = DeletedCategory]
          /\ last' = Reply(route, h, v, 200, request, [message |-> "Category deleted successfully."])
          /\ UNCHANGED <<users, products, orders, inflight>>

\* POST /api/categories of the first revision (no auth gate): the slug is
\* generateSlug(name), the body may name a parent, and a duplicate key
\* error is answered 409.
PostCategoryRev0(name, parentId, now) ==
  LET route == "POST /api/categories (rev0)"
      request == [id |-> 0, name |-> name]
      slug == generateSlug(name[1], now)
      newCategory == Category(name[1], slug, FALSE, None, parentId)
  IN IF name = None \/ name[1] = << >>
     THEN /\ last' = Reply(route, NoHeader, Open, 400, request, [message |-> "Category name is required."])
          /\ UNCHANGED <<users, products, orders, categories, inflight>>
     ELSE IF ~CategoryUnique(categories, 0, name[1], slug)
     THEN /\ last' = Reply(route, NoHeader, Open, 409, request,
                           [message |-> "A category with this name already exists."])
          /\ UNCHANGED <<users, products, orders, categories, inflight>>
     ELSE /\ Len(categories) < MaxCategories
          /\ categories' = Append(categories, newCategory)
          /\ last' = Reply(route, NoHeader, Open, 201, request, newCategory)
          /\ UNCHANGED <<users, products, orders, inflight>>

\* PUT /api/categories/:id of the first revision: the name is required,
\* the slug is generated again only when the name changes, parentId is
\* written as given (null when missing); a duplicate key error is
\* answered 409.
PutCategoryRev0(id, name, parentId, now) ==
  LET route == "PUT /api/categories/:id (rev0)"
      request == [id |-> id, name |-> name, parentId |-> parentId]
      categoryToUpdate == categories[id]
      newSlug == IF name[1] # categoryToUpdate.name
                 THEN generateSlug(name[1], now) ELSE categoryToUpdate.slug
      updatedCategory ==
        [categoryToUpdate EXCEPT !.name = name[1], !.slug = newSlug, !.parentId = parentId]
  IN IF name = None \/ name[1] = << >>
     THEN /\ last' = Reply(route, NoHeader, Open, 400, request, [message |-> "Category name is required."])
          /\ UNCHANGED <<users, products, orders, categories, inflight>>
     ELSE IF id \notin 1..Len(categories) \/ ~categories[id].live
     THEN /\ last' = Reply(route, NoHeader, Open, 404, request, [message |-> "Category not found."])
          /\ UNCHANGED <<users, products, orders, categories, inflight>>
     ELSE IF ~CategoryUnique(categories, id, name[1], newSlug)
     THEN /\ last' = Reply(route, NoHeader, Open, 409, request,
                           [message |-> "A category with this name already exists."])
          /\ UNCHANGED <<users, products, orders, categories, inflight>>
     ELSE /\ categories' = [categories EXCEPT ![id] = updatedCategory]
          /\ last' = Reply(route, NoHeader, Open, 200, request, updatedCategory)
          /\ UNCHANGED <<users, products, orders, inflight>>

\* DELETE /api/categories/:id of the first revision: the category is
\* deleted and Category.updateMany({ parentId: id }, { $set: { parentId:
\* null } }) detaches its children.
DeleteCategoryRev0(id) ==
  LET route == "DELETE /api/categories/:id (rev0)"
      request == [id |-> id, name |-> None]
  IN IF id \notin 1..Len(categories) \/ ~categories[id].live
     THEN /\ last' = Reply(route, NoHeader, Open, 404, request, [message |-> "Category not found."])
          /\ UNCHANGED <<users, products, orders, categories, inflight>>
     ELSE /\ categories' =
               [k \in 1..Len(categories) |->
                  IF k = id THEN DeletedCategory
                  ELSE IF categories[k].live /\ categories[k].parentId = Some(id)
                  THEN [categories[k] EXCEPT !.parentId = None]
                  ELSE categories[k]]
          /\ last' = Reply(route, NoHeader, Open, 200, request, [message |-> "Category deleted successfully."])
          /\ UNCHANGED <<users, products, orders, inflight>>

\* The category routes of the current revision next to those of the
\* first one, over the one Categories collection both have written to.
InitCategories ==
  /\ users = << NewUser("a@x") >>
  /\ products = [p \in ProductIds |-> Deleted]
  /\ orders = << >>
  /\ categories = << >>
  /\ inflight = << >>
  /\ last = NoRequest

NextCategories ==
  \/ \E h \in StaffHeaders :
       \E n \in Tried(h, NameInputs) : PostCategory(h, n, None, None)
  \/ \E h \in StaffHeaders :
       \E id \in Tried(h, CategoryIds), n \in Tried(h, NameInputs) :
         PatchCategory(h, id, n, None, None)
  \/ \E h \in StaffHeaders : \E id \in Tried(h, CategoryIds) : DeleteCategory(h, id)
  \/ \E n \in NameInputs, p \in ParentInputs, now \in Clock : PostCategoryRev0(n, p, now)
  \/ \E id \in CategoryIds, n \in NameInputs, p \in ParentInputs, now \in Clock :
       PutCategoryRev0(id, n, p, now)
  \/ \E id \in CategoryIds : DeleteCategoryRev0(id)

SpecCategories == InitCategories /\ [][NextCategories]_vars

\* The two update routes at work on one stored category, created by
\* either revision's POST (the slug tells which) and perhaps the child of
\* the other stored category, and on an id no category has.
StoredSlugs(name) == {PlainSlug(name), generateSlug(name, <<"1">>)}
UpdatedIds == {1, MaxCategories + 1}

InitCategoryUpdates ==
  /\ users = << NewUser("a@x") >>
  /\ products = [p \in ProductIds |-> Deleted]
  /\ orders = << >>
  /\ \E slug \in StoredSlugs(<<"R">>), isNav \in BOOLEAN, image \in ImageInputs,
        parentId \in {None, Some(2)} :
       categories = << Category(<<"R">>, slug, isNav, image, parentId),
                       Category(<<"t">>, PlainSlug(<<"t">>), FALSE, None, None) >>
  /\ inflight = << >>
  /\ last = NoRequest

NextCategoryUpdates ==
  \/ \E h \in StaffHeaders :
       \E id \in Tried(h, UpdatedIds), n \in Tried(h, NameInputs),
          image \in Tried(h, ImageInputs), isNav \in Tried(h, NavInputs) :
         PatchCategory(h, id, n, image, isNav)
  \/ \E id \in UpdatedIds, n \in NameInputs, p \in ParentInputs :
       PutCategoryRev0(id, n, p, <<"2">>)

SpecCategoryUpdates == InitCategoryUpdates /\ [][NextCategoryUpdates]_vars

\* ---------------------------------------------------------- order status
\* validStatuses of PATCH /api/orders/:id/status (the enum of
\* OrderSchema.orderStatus).
validStatuses == <<"pending", "processing", "shipped", "delivered", "cancelled">>

\* req.body.orderStatus: missing, a valid status, or another string.
StatusInputs ==
  {None, Some("refunded")} \cup {Some(validStatuses[k]) : k \in 1..Len(validStatuses)}

\* _id values of the Orders collection and one that no order has.
OrderIds == 1..(MaxOrders + 1)

\* validStatuses.includes(orderStatus)
Includes(list, x) == \E k \in 1..Len(list) : list[k] = x

\* validStatuses.indexOf(status)
IndexOf(list, x) == CHOOSE k \in 1..Len(list) : list[k] = x

\* What the handler read: the path id, the body's orderStatus, and the
\* status the order with that id had when the request arrived.
StatusRequest(id, orderStatus) ==
  [id |-> id, orderStatus |-> orderStatus,
   from |-> IF id \in 1..Len(orders) THEN Some(orders[id].orderStatus) ELSE None]

\* PATCH /api/orders/:id/status that only lets an order move forward in
\* validStatuses.
PatchOrderStatusForwardOnly(h, id, orderStatus) ==
  LET route == "PATCH /api/orders/:id/status"
      v == VerifyToken(h)
      request == StatusRequest(id, orderStatus)
  IN IF ~v.ok THEN Reject(route, h, v)
     ELSE IF orderStatus = None \/ ~Includes(validStatuses, orderStatus[1])
     THEN /\ last' = Reply(route, h, v, 400, request, [message |-> "Invalid order status."])
          /\ UNCHANGED <<users, products, orders, categories, inflight>>
     ELSE IF id \notin 1..Len(orders)
     THEN /\ last' = Reply(route, h, v, 404, request, [message |-> "Order not found."])
          /\ UNCHANGED <<users, products, orders, categories, inflight>>
     ELSE IF IndexOf(validStatuses, orderStatus[1]) < IndexOf(validStatuses, orders[id].orderStatus)
     THEN /\ last' = Reply(route, h, v, 400, request, [message |-> "Invalid order status."])
          /\ UNCHANGED <<users, products, orders, categories, inflight>>
     ELSE /\ orders' = [orders EXCEPT ![id].orderStatus = orderStatus[1]]
          /\ last' = Reply(route, h, v, 200, request, orders'[id])
          /\ UNCHANGED <<users, products, categories, inflight>>

\* PATCH /api/orders/:id/status without the test against validStatuses.
PatchOrderStatusAnyStatus(h, id, orderStatus) ==
  LET route == "PATCH /api/orders/:id/status"
      v == VerifyToken(h)
      request == StatusRequest(id, orderStatus)
  IN IF ~v.ok THEN Reject(route, h, v)
     ELSE IF orderStatus = None
     THEN /\ last' = Reply(route, h, v, 400, request, [message |-> "Invalid order status."])
          /\ UNCHANGED <<users, products, orders, categories, inflight>>
     ELSE IF id \notin 1..Len(orders)
     THEN /\ last' = Reply(route, h, v, 404, request, [message |-> "Order not found."])
          /\ UNCHANGED <<users, products, orders, categories, inflight>>
     ELSE /\ orders' = [orders EXCEPT ![id].orderStatus = orderStatus[1]]
          /\ last' = Reply(route, h, v, 200, request, orders'[id])
          /\ UNCHANGED <<users, products, categories, inflight>>

\* PATCH /api/orders/:id/status: 400 unless orderStatus is one of
\* validStatuses, then Order.findByIdAndUpdate(id, { orderStatus },
\* { new: true }): 404 when no order has the id, otherwise 200 with the
\* updated order.
PatchOrderStatus(h, id, orderStatus) ==
  LET route == "PATCH /api/orders/:id/status"
      v == VerifyToken(h)
      request == StatusRequest(id, orderStatus)
  IN IF ~v.ok THEN Reject(route, h, v)
     ELSE IF orderStatus = None \/ ~Includes(validStatuses, orderStatus[1])
     THEN /\ last' = Reply(route, h, v, 400, request, [message |-> "Invalid order status."])
          /\ UNCHANGED <<users, products, orders, categories, inflight>>
     ELSE IF id \notin 1..Len(orders)
     THEN /\ last' = Reply(route, h, v, 404, request, [message |-> "Order not found."])
          /\ UNCHANGED <<users, products, orders, categories, inflight>>
     ELSE /\ orders' = [orders EXCEPT ![id].orderStatus = orderStatus[1]]
          /\ last' = Reply(route, h, v, 200, request, orders'[id])
          /\ UNCHANGED <<users, products, categories, inflight>>

\* Orders placed from any cart "a@x" can have built, and their status
\* changed afterwards; the catalogue is that of Init.
InitOrderStatus ==
  /\ \E c \in ValidCarts : users = << [NewUser("a@x") EXCEPT !.cart = c], Bystander >>
  /\ products = [p \in ProductIds |->
                   IF p = "p1" THEN Product([regular |-> 2, discount |-> Some(1)], TRUE)
                   ELSE Deleted]
  /\ orders = << >>
  /\ categories = << >>
  /\ inflight = << >>
  /\ last = NoRequest

NextOrderStatus ==
  \/ \E h \in Headers : \E a \in Tried(h, BOOLEAN) : PostOrders(h, a)
  \/ \E h \in Headers :
       \E id \in Tried(h, OrderIds), st \in Tried(h, StatusInputs) : PatchOrderStatus(h, id, st)

SpecOrderStatus == InitOrderStatus /\ [][NextOrderStatus]_vars

\* ------------------------------------------------------------------ deals
\* .limit(10) of GET /api/products/deals
DealsLimit == 10

\* Largest number of products in the collection the deals are drawn from.
MaxProducts == 11

\* pricing sub-documents of the products the deals are drawn from: no
\* discount, a discount below the regular price, a discount equal to it.
DealPricings ==
  { [regular |-> 2, discount |-> None],
    [regular |-> 2, discount |-> Some(1)],
    [regular |-> 2, discount |-> Some(2)] }

\* The filter with $lte in the place of $lt.
MatchesNotAbove(p) ==
  /\ p.live
  /\ p.pricing.discount # None
  /\ p.pricing.discount[1] <= p.pricing.regular

\* The filter of the deals query: 'pricing.discount' exists and is not
\* null, and $expr: { $lt: ["$pricing.discount", "$pricing.regular"] }.
Matches(p) ==
  /\ p.live
  /\ p.pricing.discount # None
  /\ p.pricing.discount[1] < p.pricing.regular

\* Product.find(filter) over a collection whose ids are 1..Len(ps) in
\* the order of createdAt: the ids of the matching products.
Find(ps) == SelectSeq([k \in 1..Len(ps) |-> k], LAMBDA k : Matches(ps[k]))

\* .sort({ createdAt: -1 }) of ids that are in the order of createdAt
SortCreatedAtDesc(ids) == [i \in 1..Len(ids) |-> ids[Len(ids) + 1 - i]]

\* .limit(n)
Limit(list, n) == SubSeq(list, 1, IF Len(list) < n THEN Len(list) ELSE n)

\* GET /api/products/deals (no auth gate): 200 with the deals.
GetDeals ==
  /\ last' = Reply("GET /api/products/deals", NoHeader, Open, 200, None,
                   [deals |-> Limit(SortCreatedAtDesc(Find(products)), DealsLimit)])
  /\ UNCHANGED <<users, products, orders, categories, inflight>>

\* The deals of any collection of up to MaxProducts products, created one
\* after the other.
InitDeals ==
  /\ users = << >>
  /\ \E n \in 0..MaxProducts :
       products \in [1..n -> {Product(pr, TRUE) : pr \in DealPricings}]
  /\ orders = << >>
  /\ categories = << >>
  /\ inflight = << >>
  /\ last = NoRequest

NextDeals == GetDeals

SpecDeals == InitDeals /\ [][NextDeals]_vars

\* ------------------------------------------------------------------ slugs
\* Longest name generateSlug is given in the model.
MaxNameLen == 4

\* The characters of a name: an uppercase letter, a lowercase letter, a
\* digit, a blank, "&", "-", and a character outside [a-z0-9\s-].
NameChars == {"R", "r", "7", " ", "&", "-", "!"}
Names == UNION {[1..n -> NameChars] : n \in 0..MaxNameLen}

\* A call generateSlug(name) at time now that has not returned yet.
Call(name, now) ==
  [route |-> "generateSlug", auth |-> "none", decoded |-> None, ran |-> FALSE,
   status |-> 0, request |-> [name |-> name, now |-> now], body |-> [slug |-> << >>]]

\* The call returns the slug.
GenerateSlug ==
  /\ last.route = "generateSlug"
  /\ ~last.ran
  /\ last' = [last EXCEPT !.ran = TRUE,
                          !.body = [slug |-> generateSlug(last.request.name, last.request.now)]]
  /\ UNCHANGED <<users, products, orders, categories, inflight>>

\* generateSlug called with any name of up to MaxNameLen characters.
InitSlug ==
  /\ users = << >>
  /\ products = [p \in ProductIds |-> Deleted]
  /\ orders = << >>
  /\ categories = << >>
  /\ inflight = << >>
  /\ \E name \in Names, now \in Clock : last = Call(name, now)

NextSlug == GenerateSlug

SpecSlug == InitSlug /\ [][NextSlug]_vars

\* ------------------------------------------------------- product creation
\* Largest number of products created in the model.
MaxCreated == 2

\* req.body of POST /api/products: each of name, category, pricing,
\* pricing.regular and stock may be missing; the name may be the empty
\* string, the regular price and the stock may be 0.
ProductBodies ==
  [name : {None, Some(<< >>), Some(<<"r">>)},
   category : {None, Some("c1")},
   pricing : {None, Some([regular |-> None]), Some([regular |-> Some(0)]),
              Some([regular |-> Some(2)])},
   stock : {None, Some(0), Some(1)}]

\* ProductSchema.stock: { default: 0 }
DefaultStock == 0

\* new Product({ ...productData, slug }): the document, with the schema
\* default for a missing stock.
NewProduct(productData, slug) ==
  [live |-> TRUE, name |-> productData.name, slug |-> slug,
   category |-> productData.category,
   pricing |-> productData.pricing,
   stock |-> IF productData.stock = None THEN Some(DefaultStock) ELSE productData.stock,
   status |-> FALSE]

\* newProduct.save(): name, category, pricing.regular and stock are
\* required, and the unique index on slug admits the document.
ProductSaveOk(ps, doc) ==
  /\ doc.name # None /\ doc.name # Some(<< >>)
  /\ doc.category # None
  /\ doc.pricing # None /\ doc.pricing[1].regular # None
  /\ doc.stock # None
  /\ \A k \in 1..Len(ps) : ~(ps[k].live /\ ps[k].slug = doc.slug)

\* POST /api/products: 400 without a name; otherwise the slug is derived
\* from the name and Date.now() and the document saved (201); a save that
\* throws is answered 500.
PostProduct(h, productData, now) ==
  LET route == "POST /api/products"
      v == VerifyToken(h)
      slug == PlainSlug(productData.name[1]) \o <<"-">> \o now
      newProduct == NewProduct(productData, slug)
  IN IF ~v.ok THEN Reject(route, h, v)
     ELSE IF productData.name = None \/ productData.name[1] = << >>
     THEN /\ last' = Reply(route, h, v, 400, productData, [message |-> "Product name is required."])
          /\ UNCHANGED <<users, products, orders, categories, inflight>>
     ELSE IF ~ProductSaveOk(products, newProduct)
     THEN /\ last' = Reply(route, h, v, 500, productData, [message |-> "Failed to create product."])
          /\ UNCHANGED <<users, products, orders, categories, inflight>>
     ELSE /\ Len(products) < MaxCreated
          /\ products' = Append(products, newProduct)
          /\ last' = Reply(route, h, v, 201, productData, [message |-> "created"])
          /\ UNCHANGED <<users, orders, categories, inflight>>

\* POST /api/products of the first revision (no auth gate):
\* generateSlug(productData.name) runs first and throws on a missing name
\* (500); then 400 when name, category or pricing.regular is falsy or
\* stock is undefined; reading pricing.regular of a missing pricing throws
\* (500).
PostProductRev0(productData, now) ==
  LET route == "POST /api/products (rev0)"
      slug == generateSlug(productData.name[1], now)
      newProduct == NewProduct(productData, slug)
      regularFalsy == productData.pricing[1].regular \in {None, Some(0)}
  IN IF productData.name = None
     THEN /\ last' = Reply(route, NoHeader, Open, 500, productData, [message |-> "Server error"])
          /\ UNCHANGED <<users, products, orders, categories, inflight>>
     ELSE IF productData.name[1] = << >> \/ productData.category = None
     THEN /\ last' = Reply(route, NoHeader, Open, 400, productData,
                           [message |-> "Name, Category, Price, and Stock are required."])
          /\ UNCHANGED <<users, products, orders, categories, inflight>>
     ELSE IF productData.pricing = None
     THEN /\ last' = Reply(route, NoHeader, Open, 500, productData, [message |-> "Server error"])
          /\ UNCHANGED <<users, products, orders, categories, inflight>>
     ELSE IF regularFalsy \/ productData.stock = None
     THEN /\ last' = Reply(route, NoHeader, Open, 400, productData,
                           [message |-> "Name, Category, Price, and Stock are required."])
          /\ UNCHANGED <<users, products, orders, categories, inflight>>
     ELSE IF ~ProductSaveOk(products, newProduct)
     THEN /\ last' = Reply(route, NoHeader, Open, 500, productData, [message |-> "Server error"])
          /\ UNCHANGED <<users, products, orders, categories, inflight>>
     ELSE /\ Len(products) < MaxCreated
          /\ products' = Append(products, newProduct)
          /\ last' = Reply(route, NoHeader, Open, 201, productData, [message |-> "created"])
          /\ UNCHANGED <<users, orders, categories, inflight>>

\* Products created through the current route and through that of the
\* first revision, into a collection that starts empty.
InitProducts ==
  /\ users = << NewUser("a@x") >>
  /\ products = << >>
  /\ orders = << >>
  /\ categories = << >>
  /\ inflight = << >>
  /\ last = NoRequest

NextProducts ==
  \/ \E h \in StaffHeaders :
       \E b \in Tried(h, ProductBodies), now \in Tried(h, Clock) : PostProduct(h, b, now)
  \/ \E b \in ProductBodies, now \in Clock : PostProductRev0(b, now)

SpecProducts == InitProducts /\ [][NextProducts]_vars

\* ------------------------------------------------- interleaved handlers
\* Two requests of "a@x" that are served at the same time.  A handler runs
\* from one await to the next in one step; between its steps the other
\* handler may run.
Slots == {1, 2}

\* req.body.quantity of the interleaved POST /api/cart requests.
RaceQuantities == {None, Some(2)}

\* A slot no request has arrived on.
Idle ==
  [op |-> "-", pc |-> "idle", productId |-> None, quantity |-> None,
   addressComplete |-> FALSE, read |-> << >>, cart |-> << >>, order |-> None,
   stale |-> FALSE, status |-> 0, error |-> "-"]

\* The handler is over: the response was sent.
Done(handler, status, error) ==
  [handler EXCEPT !.pc = "done", !.status = status, !.error = error]

\* user.save() of a document that another save has written since it was
\* read.  UserSchema keeps mongoose's version key (its options set
\* timestamps only), and a save that sets the cart array carries the
\* version it read: the write goes through, or it matches no document and
\* save() throws a VersionError, depending on how the earlier write
\* counted.  A document nobody wrote since is written.
SaveOutcomes(stale) == IF stale THEN {"written", "VersionError"} ELSE {"written"}

\* A save of the user document went through: every other handler that
\* holds a copy of the document now holds an old one.
AfterWrite(r, handler) ==
  [q \in Slots |->
     IF q = r THEN handler
     ELSE IF inflight[q].pc \in {"save", "saveOrder", "clear"}
     THEN [inflight[q] EXCEPT !.stale = TRUE]
     ELSE inflight[q]]

\* POST /api/cart up to `await user.save()`: findOne, then the cart is
\* built in memory from the cart that was read.
CartRead(r, productId, quantity) ==
  LET i == FindOneByEmail(users, "a@x")
      start == [Idle EXCEPT !.op = "POST /api/cart", !.productId = Some(productId),
                            !.quantity = quantity]
  IN /\ inflight[r].pc = "idle"
     /\ IF i = 0
        THEN inflight' = [inflight EXCEPT ![r] = Done(start, 404, "-")]
        ELSE LET cart == CartAfterPost(users[i].cart, productId, quantity) IN
             /\ CartBounded(cart)
             /\ inflight' = [inflight EXCEPT ![r] =
                               [start EXCEPT !.pc = "save", !.read = users[i].cart,
                                             !.cart = cart]]
     /\ UNCHANGED <<users, products, orders, categories, last>>

\* A save that applies the request to the cart that is stored when the
\* write happens, as an atomic update would.
SavedCartReapplied(stored, handler) ==
  CartAfterPost(stored, handler.productId[1], handler.quantity)

\* The cart user.save() writes: the one the handler built in memory.
SavedCart(stored, handler) == handler.cart

\* POST /api/cart from `await user.save()` on: validation, the write, the
\* response (500 from the catch block when save() throws).
CartSave(r) ==
  LET handler == inflight[r]
      i == FindOneByEmail(users, "a@x")
  IN /\ handler.op = "POST /api/cart"
     /\ handler.pc = "save"
     /\ IF ~CartValid(handler.cart)
        THEN /\ inflight' = [inflight EXCEPT ![r] = Done(handler, 500, "ValidationError")]
             /\ UNCHANGED users
        ELSE \E outcome \in SaveOutcomes(handler.stale) :
               IF outcome = "written"
               THEN /\ users' = [users EXCEPT ![i].cart = SavedCart(@, handler)]
                    /\ inflight' = AfterWrite(r, Done(handler, 200, "-"))
               ELSE /\ inflight' = [inflight EXCEPT ![r] = Done(handler, 500, "VersionError")]
                    /\ UNCHANGED users
     /\ UNCHANGED <<products, orders, categories, last>>

\* POST /api/orders up to `await newOrder.save()`: findOne with populate,
\* the empty-cart test, the loop, new Order(...).
OrderRead(r, addressComplete) ==
  LET i == FindOneByEmail(users, "a@x")
      start == [Idle EXCEPT !.op = "POST /api/orders", !.addressComplete = addressComplete]
  IN /\ inflight[r].pc = "idle"
     /\ IF CartIsEmpty(users, i)
        THEN inflight' = [inflight EXCEPT ![r] = Done(start, 400, "-")]
        ELSE LET built == OrderLoop(users[i].cart, products, << >>, 0)
                 newOrder == [user |-> i,
                              items |-> built.items,
                              totalAmount |-> built.totalAmount,
                              paymentStatus |-> "pending",
                              orderStatus |-> "pending"]
             IN inflight' = [inflight EXCEPT ![r] =
                               [start EXCEPT !.pc = "saveOrder", !.read = users[i].cart,
                                             !.order = Some(newOrder)]]
     /\ UNCHANGED <<users, products, orders, categories, last>>

\* An order write that first looks at the stored cart again and refuses
\* when it is empty.
OrderSaveCheckingCart(r) ==
  LET handler == inflight[r]
      i == FindOneByEmail(users, "a@x")
  IN /\ handler.op = "POST /api/orders"
     /\ handler.pc = "saveOrder"
     /\ IF OrderValid(handler.order[1], handler.addressComplete) /\ users[i].cart # << >>
        THEN /\ orders' = Append(orders, handler.order[1])
             /\ inflight' = [inflight EXCEPT ![r].pc = "clear"]
        ELSE /\ inflight' = [inflight EXCEPT ![r] = Done(handler, 500, "ValidationError")]
             /\ UNCHANGED orders
     /\ UNCHANGED <<users, products, categories, last>>

\* POST /api/orders, `await newOrder.save()`: the order is validated and
\* written; the handler is then suspended before the cart is cleared.
OrderSave(r) ==
  LET handler == inflight[r]
  IN /\ handler.op = "POST /api/orders"
     /\ handler.pc = "saveOrder"
     /\ IF OrderValid(handler.order[1], handler.addressComplete)
        THEN /\ orders' = Append(orders, handler.order[1])
             /\ inflight' = [inflight EXCEPT ![r].pc = "clear"]
        ELSE /\ inflight' = [inflight EXCEPT ![r] = Done(handler, 500, "ValidationError")]
             /\ UNCHANGED orders
     /\ UNCHANGED <<users, products, categories, last>>

\* A clear that removes only the lines the handler had read.
ClearedCartKeepingOthers(stored, handler) ==
  SelectSeq(stored, LAMBDA item :
              \A k \in 1..Len(handler.read) : handler.read[k].product # item.product)

\* user.cart = []
ClearedCart(stored, handler) == << >>

\* A catch block that takes the order back when the cart could not be
\* cleared.
FailedClearRemovingOrder(r) ==
  /\ inflight' = [inflight EXCEPT ![r] = Done(inflight[r], 500, "VersionError")]
  /\ orders' = SelectSeq(orders, LAMBDA o : o # inflight[r].order[1])
  /\ UNCHANGED users

\* The cart-clear write threw: the catch block answers 500 and does
\* nothing else.
FailedClear(r) ==
  /\ inflight' = [inflight EXCEPT ![r] = Done(inflight[r], 500, "VersionError")]
  /\ UNCHANGED <<users, orders>>

\* POST /api/orders from `user.cart = []; await user.save()` on.
OrderClear(r) ==
  LET handler == inflight[r]
      i == FindOneByEmail(users, "a@x")
  IN /\ handler.op = "POST /api/orders"
     /\ handler.pc = "clear"
     /\ \E outcome \in SaveOutcomes(handler.stale) :
          IF outcome = "written"
          THEN /\ users' = [users EXCEPT ![i].cart = ClearedCart(@, handler)]
               /\ inflight' = AfterWrite(r, Done(handler, 201, "-"))
               /\ UNCHANGED orders
          ELSE FailedClear(r)
     /\ UNCHANGED <<products, categories, last>>

\* The handler stops between the order write and the cart-clear write
\* (the process dies, the connection to the store is lost): no response,
\* no further step.
Stop(r) ==
  /\ inflight[r].op = "POST /api/orders"
  /\ inflight[r].pc = "clear"
  /\ inflight' = [inflight EXCEPT ![r].pc = "stopped"]
  /\ UNCHANGED <<users, products, orders, categories, last>>

\* The carts "a@x" holds when the two requests arrive.
RaceCarts ==
  { << >>,
    << [product |-> "p1", quantity |-> 1] >>,
    << [product |-> "p1", quantity |-> 1], [product |-> "p2", quantity |-> 1] >> }

InitRaces ==
  /\ \E c \in RaceCarts : users = << [NewUser("a@x") EXCEPT !.cart = c], Bystander >>
  /\ products = [p \in ProductIds |->
                   IF p = "p1" THEN Product([regular |-> 2, discount |-> Some(1)], TRUE)
                   ELSE Product([regular |-> 2, discount |-> None], TRUE)]
  /\ orders = << >>
  /\ categories = << >>
  /\ inflight = [r \in Slots |-> Idle]
  /\ last = NoRequest

NextRaces ==
  \/ \E r \in Slots : \E p \in ProductIds, q \in RaceQuantities : CartRead(r, p, q)
  \/ \E r \in Slots : CartSave(r)
  \/ \E r \in Slots : \E a \in BOOLEAN : OrderRead(r, a)
  \/ \E r \in Slots : OrderSave(r)
  \/ \E r \in Slots : OrderClear(r)
  \/ \E r \in Slots : Stop(r)

SpecRaces == InitRaces /\ [][NextRaces]_vars

\* ================================================================ claims
\* Helpers of the claims.
UsersWithEmail(us, e) == {i \in 1..Len(us) : us[i].email = e}
HasLine(cart, p) == \E k \in 1..Len(cart) : cart[k].product = p
LineQuantities(cart, p) == {cart[k].quantity : k \in {n \in 1..Len(cart) : cart[n].product = p}}
Lines(items) == [k \in 1..Len(items) |->
                   [product |-> items[k].product, quantity |-> items[k].quantity]]
RECURSIVE SumOfItems(_)
SumOfItems(items) ==
  IF items = << >> THEN 0
  ELSE Head(items).price * Head(items).quantity + SumOfItems(Tail(items))
StoredAdmin(us, e) == \E i \in UsersWithEmail(us, e) : us[i].role = "admin"
SaveAccepts(us, body) ==
  /\ body.uid # None
  /\ body.complete
  /\ body.role \in {None, Some("user"), Some("admin")}
  /\ \A i \in 1..Len(us) : us[i].uid # body.uid
CategoryDeleteRoutes ==
  {"DELETE /api/categories/:id", "DELETE /api/categories/:id (rev0)"}
IsCategory(cs, id) == id \in 1..Len(cs) /\ cs[id].live
Taken(cs, id, name) ==
  \E k \in 1..Len(cs) :
    /\ cs[k].live
    /\ k # id
    /\ cs[k].name = name \/ cs[k].slug = PlainSlug(name)
OrderStatuses == {"pending", "processing", "shipped", "delivered", "cancelled"}
OnSale(pricing) == pricing.discount # None /\ pricing.discount[1] < pricing.regular
SlugChars == {"a", "d", "n", "r", "t", "1", "2", "7", "-"}
DigitChars == {"1", "2", "7"}
MatchesSlugPattern(slug) ==
  \E k \in 2..(Len(slug) - 1) :
    /\ \A i \in 1..(k - 1) : slug[i] \in SlugChars
    /\ slug[k] = "-"
    /\ \A i \in (k + 1)..Len(slug) : slug[i] \in DigitChars
WellFormedSlug(slug, now) ==
  /\ MatchesSlugPattern(slug)
  /\ Len(slug) > Len(now) + 1
  /\ SubSeq(slug, Len(slug) - Len(now), Len(slug)) = <<"-">> \o now
  /\ LET base == SubSeq(slug, 1, Len(slug) - Len(now) - 1)
     IN /\ \A i \in 1..Len(base) : base[i] \notin {"R", "A", " ", "&"}
        /\ \A i \in 1..(Len(base) - 1) : ~(base[i] = "-" /\ base[i + 1] = "-")
FieldAbsent(b) ==
  \/ b.name = None
  \/ b.category = None
  \/ b.pricing = None
  \/ b.pricing[1].regular = None
  \/ b.stock = None
OrderPlaced == last'.route = "POST /api/orders" /\ last'.status = 201
ProductRoutes ==
  {"PATCH /api/products/:id", "PATCH /api/products/status/:id", "DELETE /api/products/:id"}
CartWishlistRoutes ==
  {"GET /api/cart", "POST /api/cart", "POST /api/cart (rev1)",
   "DELETE /api/cart/:productId", "GET /api/wishlist", "POST /api/wishlist"}

\* C1: every persisted order has totalAmount equal to the sum over its
\* items of price x quantity, whatever the cart held when it was placed
\* (a line whose product did not resolve adds no item and no amount).
C1_TotalIsSumOfItems ==
  \A k \in 1..Len(orders) : orders[k].totalAmount = SumOfItems(orders[k].items)

\* C1 witness: an order of two lines, one of them with quantity 2, has
\* just been placed.
C1_Witness ==
  /\ last.route = "POST /api/orders" /\ last.status = 201
  /\ \E k \in 1..Len(orders) :
       /\ Len(orders[k].items) = 2
       /\ \E n \in 1..2 : orders[k].items[n].quantity = 2
       /\ orders[k].totalAmount >= 3

\* C2: every line of a newly placed order has the product's discount
\* price when a discount is set on the product (whatever its value), and
\* the regular price otherwise.
C2_PriceIsDiscountWhenSet ==
  [][OrderPlaced =>
       LET o == orders'[Len(orders')] IN
       \A n \in 1..Len(o.items) :
         LET pricing == products[o.items[n].product].pricing IN
         o.items[n].price =
           IF pricing.discount # None THEN pricing.discount[1] ELSE pricing.regular]_vars

\* C3 as stated: after a successful POST /api/orders the caller's cart is
\* empty and exactly one order was added, whose lines are the caller's
\* former cart lines with the same quantities.
C3_OrderTakesWholeCart ==
  [][OrderPlaced =>
       \A i \in UsersWithEmail(users, last'.decoded[1]) :
         /\ users'[i].cart = << >>
         /\ Len(orders') = Len(orders) + 1
         /\ SubSeq(orders', 1, Len(orders)) = orders
         /\ Lines(orders'[Len(orders')].items) = users[i].cart]_vars

\* C3 amended: after a successful POST /api/orders the caller's cart is
\* empty and exactly one order was added, whose lines are those of the
\* caller's former cart lines whose product resolves, in cart order and
\* with the same quantities.
C3_OrderTakesResolvedCart ==
  [][OrderPlaced =>
       \A i \in UsersWithEmail(users, last'.decoded[1]) :
         /\ users'[i].cart = << >>
         /\ Len(orders') = Len(orders) + 1
         /\ SubSeq(orders', 1, Len(orders)) = orders
         /\ Lines(orders'[Len(orders')].items) =
              SelectSeq(users[i].cart, LAMBDA line : products[line.product].live)]_vars

\* C3 witness: "a@x" has just placed an order of two lines, one with
\* quantity 2, and its cart is empty.
C3_Witness ==
  /\ last.route = "POST /api/orders" /\ last.status = 201
  /\ last.decoded = Some("a@x")
  /\ users[1].cart = << >>
  /\ Len(orders) = 1 /\ orders[1].user = 1
  /\ Len(orders[1].items) = 2
  /\ orders[1].items[1].quantity = 2

\* C4: POST /api/orders by a caller who has no user record or whose cart
\* is empty is answered 400, adds no order and changes no user.
C4_EmptyCartIsRejected ==
  [][(/\ last'.route = "POST /api/orders"
      /\ last'.ran
      /\ \A i \in UsersWithEmail(users, last'.decoded[1]) : users[i].cart = << >>)
     => (last'.status = 400 /\ orders' = orders /\ users' = users)]_vars

\* C4 witness: "a@x", whose cart is empty, was answered 400 while the
\* other user's cart holds lines.
C4_Witness ==
  /\ last.route = "POST /api/orders" /\ last.status = 400
  /\ last.decoded = Some("a@x")
  /\ users[1].cart = << >>
  /\ users[2].cart # << >>

\* C5: no product request (PATCH /api/products/:id, PATCH
\* /api/products/status/:id, DELETE /api/products/:id) changes an order:
\* the prices of its lines and its totalAmount stay as they were written.
C5_OrdersAreFrozen ==
  [][last'.route \in ProductRoutes =>
       /\ Len(orders') = Len(orders)
       /\ \A k \in 1..Len(orders) :
            /\ orders'[k].items = orders[k].items
            /\ orders'[k].totalAmount = orders[k].totalAmount]_vars

\* C5 witness: a product of an existing order was repriced and the order
\* line still carries the earlier price.
C5_Witness ==
  /\ last.route = "PATCH /api/products/:id" /\ last.status = 200
  /\ \E k \in 1..Len(orders) : \E n \in 1..Len(orders[k].items) :
       LET item == orders[k].items[n] IN
       /\ item.product = last.productId[1]
       /\ products[item.product].live
       /\ products[item.product].pricing.regular # item.price
       /\ products[item.product].pricing.discount # Some(item.price)

\* C6: POST /api/cart without a quantity adds exactly 1 to the line of
\* the product when the cart has one and appends a line of quantity 1
\* when it has none; every other line stays as it was.
C6_OmittedQuantityIncrements ==
  [][(last'.route = "POST /api/cart" /\ last'.status = 200 /\ last'.quantity = None)
     => \A i \in UsersWithEmail(users, last'.decoded[1]) :
          LET p == last'.productId[1]
              old == users[i].cart
              new == users'[i].cart
          IN IF HasLine(old, p)
             THEN /\ Len(new) = Len(old)
                  /\ \A k \in 1..Len(old) :
                       /\ new[k].product = old[k].product
                       /\ new[k].quantity =
                            IF old[k].product = p THEN old[k].quantity + 1
                            ELSE old[k].quantity
             ELSE new = Append(old, [product |-> p, quantity |-> 1])]_vars

\* C6 witness: after a request without a quantity the line of the
\* product has quantity 2.
C6_Witness ==
  /\ last.route = "POST /api/cart" /\ last.status = 200 /\ last.quantity = None
  /\ last.decoded = Some("a@x")
  /\ LineQuantities(users[1].cart, last.productId[1]) = {2}
  /\ Len(users[1].cart) = 2

\* C7: after POST /api/cart with quantity 0 the caller's cart has no line
\* for the product, whether or not it had one before.
C7_QuantityZeroRemoves ==
  (last.route = "POST /api/cart" /\ last.status = 200 /\ last.quantity = Some(0))
  => \A i \in UsersWithEmail(users, last.decoded[1]) :
       ~HasLine(users[i].cart, last.productId[1])

\* C8: every line of every persisted cart has a quantity of at least 1.
C8_QuantityAtLeastOne ==
  \A i \in 1..Len(users) : \A k \in 1..Len(users[i].cart) :
    users[i].cart[k].quantity >= 1

\* C8 witness: a request with a negative quantity was served and the
\* caller's cart still holds a line.
C8_Witness ==
  /\ last.route = "POST /api/cart" /\ last.status = 200
  /\ last.quantity = Some(-1)
  /\ last.decoded = Some("a@x")
  /\ users[1].cart # << >>

\* C9: a request without an Authorization header or with a token that
\* fails verification is answered 401, its handler does not run, no
\* claims are attached and nothing persisted changes; a handler runs only
\* for a verified token, with the decoded claims attached.
C9_GateStopsUnverified ==
  [][/\ last'.auth # "valid" =>
          /\ last'.status = 401
          /\ ~last'.ran
          /\ last'.decoded = None
          /\ UNCHANGED <<users, products, orders, categories>>
     /\ last'.ran => (last'.auth = "valid" /\ last'.decoded # None)]_vars

\* C9 witness: a token that fails verification was answered 401 on
\* POST /api/cart while the cart of the user it names holds lines.
C9_Witness ==
  /\ last.route = "POST /api/cart" /\ last.auth = "invalid" /\ last.status = 401
  /\ users[1].cart # << >>

\* C10: a cart or wishlist request leaves the record of every user whose
\* email is not the token's email claim as it was.
C10_OnlyTheCallersRecord ==
  [][(last'.route \in CartWishlistRoutes /\ last'.ran)
     => \A i \in 1..Len(users) :
          users[i].email # last'.decoded[1] => users'[i] = users[i]]_vars

\* C10 witness: a cart request of "a@x" was served; the cart and the
\* wishlist of "a@x" hold entries and the record of "b@x" is as it was.
C10_Witness ==
  /\ last.route = "POST /api/cart" /\ last.status = 200
  /\ last.decoded = Some("a@x")
  /\ Len(users[1].cart) = 2
  /\ users[1].wishlist # << >>
  /\ users[2] = Bystander

\* C11: GET /api/users/admin/:email answers 403 with a body that carries
\* no isAdmin whenever the path email is not the email of the verified
\* token; when the two are equal it answers 200 with isAdmin true exactly
\* when the stored role of that user is admin.
C11_AdminCheckOwnEmailOnly ==
  [][(last'.route = "GET /api/users/admin/:email" /\ last'.ran) =>
       IF last'.request.email # last'.decoded[1]
       THEN /\ last'.status = 403
            /\ last'.body = [message |-> "forbidden access"]
       ELSE /\ last'.status = 200
            /\ last'.body = [isAdmin |-> StoredAdmin(users, last'.request.email)]]_vars

\* C11 witness: a caller asked about somebody else, who is an admin, and
\* was answered 403.
C11_Witness ==
  /\ last.route = "GET /api/users/admin/:email"
  /\ last.ran
  /\ last.status = 403
  /\ StoredAdmin(users, last.request.email)

\* C12: PATCH /api/users/:id/role answers 400 and changes no user when the
\* role is missing or outside {user, admin}; 404 and changes no user for a
\* valid role on an unknown id; 200 with that user's role set to the
\* requested one (and nothing else changed) on an existing id.  Every
\* persisted role is user or admin in every reachable state.
C12_RoleChangeIsValidated ==
  /\ [](\A i \in 1..Len(users) : users[i].role \in {"user", "admin"})
  /\ [][(last'.route = "PATCH /api/users/:id/role" /\ last'.ran) =>
          LET id == last'.request.id
              role == last'.request.role
          IN IF role \notin {Some("user"), Some("admin")}
             THEN last'.status = 400 /\ users' = users
             ELSE IF id \notin 1..Len(users)
             THEN last'.status = 404 /\ users' = users
             ELSE /\ last'.status = 200
                  /\ users' = [users EXCEPT ![id].role = role[1]]]_vars

\* C12 witness: the second of two users has just been made an admin.
C12_Witness ==
  /\ last.route = "PATCH /api/users/:id/role"
  /\ last.ran
  /\ last.status = 200
  /\ last.request = [id |-> 2, role |-> Some("admin")]
  /\ Len(users) = 2
  /\ users[2].role = "admin"

C14_DeleteDetachesChildren ==
  [][(last'.route \in CategoryDeleteRoutes /\ last'.ran /\ last'.status = 200) =>
       LET c == last'.request.id
       IN /\ ~categories'[c].live
          /\ \A d \in 1..Len(categories) :
               (d # c /\ categories[d].live) =>
                 /\ categories'[d].live
                 /\ categories[d].parentId = Some(c) => categories'[d].parentId = None]_vars

\* C15: a create or update of a category whose name, or whose derived
\* slug, is that of another category is answered 409 and leaves the
\* Categories collection unchanged; names and slugs are pairwise distinct
\* in every reachable state.
C15_DuplicateIsConflict ==
  /\ [](\A j, k \in 1..Len(categories) :
          (categories[j].live /\ categories[k].live /\ j # k) =>
            /\ categories[j].name # categories[k].name
            /\ categories[j].slug # categories[k].slug)
  /\ [][(last'.route \in {"POST /api/categories", "PATCH /api/categories/:id"}
         /\ last'.ran /\ last'.request.name \in {Some(n) : n \in CategoryNames}
         /\ (last'.request.id = 0 \/ IsCategory(categories, last'.request.id))
         /\ Taken(categories, last'.request.id, last'.request.name[1])) =>
          (last'.status = 409 /\ categories' = categories)]_vars

\* C16: PATCH /api/orders/:id/status enforces no order of transitions: an
\* existing order with any of the five statuses that receives a request
\* with any of the five statuses ends with the requested one, and nothing
\* else in that order, and no other order, changes.
C16_AnyStatusFollowsAny ==
  [][(last'.route = "PATCH /api/orders/:id/status" /\ last'.ran
      /\ last'.request.orderStatus \in {Some(t) : t \in OrderStatuses}
      /\ last'.request.id \in 1..Len(orders)) =>
       /\ last'.status = 200
       /\ orders' = [orders EXCEPT ![last'.request.id].orderStatus =
                                      last'.request.orderStatus[1]]]_vars

\* C16 witness: a delivered order has just been set back to pending.
C16_Witness ==
  /\ last.route = "PATCH /api/orders/:id/status"
  /\ last.ran
  /\ last.status = 200
  /\ last.request.from = Some("delivered")
  /\ last.request.orderStatus = Some("pending")
  /\ orders[last.request.id].orderStatus = "pending"

\* C17: every order's orderStatus is one of the five statuses and its
\* paymentStatus one of pending, paid, failed, in every reachable state; a
\* newly created order has both pending; PATCH /api/orders/:id/status with
\* another or a missing value answers 400 and changes no order, and with a
\* valid value on an unknown id answers 404 and changes no order.
C17_StatusesStayInEnum ==
  /\ [](\A k \in 1..Len(orders) :
          /\ orders[k].orderStatus \in OrderStatuses
          /\ orders[k].paymentStatus \in {"pending", "paid", "failed"})
  /\ [][OrderPlaced =>
          /\ Len(orders') = Len(orders) + 1
          /\ orders'[Len(orders')].orderStatus = "pending"
          /\ orders'[Len(orders')].paymentStatus = "pending"]_vars
  /\ [][(last'.route = "PATCH /api/orders/:id/status" /\ last'.ran) =>
          IF last'.request.orderStatus \notin {Some(t) : t \in OrderStatuses}
          THEN last'.status = 400 /\ orders' = orders
          ELSE last'.request.id \notin 1..Len(orders) =>
                 (last'.status = 404 /\ orders' = orders)]_vars

\* C17 witness: with an order stored, a request to set it to "refunded"
\* has been answered 400.
C17_Witness ==
  /\ last.route = "PATCH /api/orders/:id/status"
  /\ last.ran
  /\ last.status = 400
  /\ last.request.orderStatus = Some("refunded")
  /\ last.request.id \in 1..Len(orders)

C20_SlugOfNonEmptyName ==
  (last.route = "generateSlug" /\ last.ran /\ last.request.name # << >>) =>
    WellFormedSlug(last.body.slug, last.request.now)

\* C20 amended: the same for every name with at least one character that
\* generateSlug keeps: a letter, a digit, whitespace, "-" or "&".
C20_SlugOfNameWithKeptChar ==
  (last.route = "generateSlug" /\ last.ran
   /\ \E i \in 1..Len(last.request.name) : last.request.name[i] # "!") =>
    WellFormedSlug(last.body.slug, last.request.now)

\* C20 witness: the slug of "R& -" has been generated.
C20_Witness ==
  /\ last.route = "generateSlug"
  /\ last.ran
  /\ last.request.name = <<"R", "&", " ", "-">>
  /\ last.body.slug = <<"r", "a", "n", "d", "-", "-", "1">>

\* C21: POST /api/products with any of name, category, pricing.regular or
\* stock absent is answered 400 and creates no product; with all four
\* present and stock 0 (a name that is not empty, a regular price that is
\* not 0, a slug no product has) it is answered 201 and creates exactly
\* one product.
C21_RequiredProductFields ==
  [][(last'.route \in {"POST /api/products", "POST /api/products (rev0)"} /\ last'.ran) =>
       LET b == last'.request
       IN /\ FieldAbsent(b) => (last'.status = 400 /\ products' = products)
          /\ (~FieldAbsent(b) /\ b.stock = Some(0) /\ b.name # Some(<< >>)
              /\ b.pricing[1].regular # Some(0) /\ last'.status # 500) =>
               (last'.status = 201 /\ Len(products') = Len(products) + 1)]_vars

\* The two handlers are POST /api/cart requests, both over, and handler q
\* saved a document that handler r had written since q read it.
CartsOverlapped(r, q) ==
  /\ r # q
  /\ inflight[r].op = "POST /api/cart" /\ inflight[r].pc = "done"
  /\ inflight[q].op = "POST /api/cart" /\ inflight[q].pc = "done"
  /\ inflight[q].stale

\* What the stored cart would be had handler r run to its end before
\* handler q started.
OneAfterTheOther(r, q) ==
  CartAfterPost(CartAfterPost(inflight[q].read, inflight[r].productId[1], inflight[r].quantity),
                inflight[q].productId[1], inflight[q].quantity)

\* C22: when two POST /api/cart requests of one user have both read the
\* user before either wrote, both built their cart from the same stored
\* cart, and the cart that is stored when both are over is the cart one of
\* them built: the second writer's when its save went through, the first
\* writer's when it did not.  The other request's change is not in it.
C22_LastSaveWins ==
  \A r \in Slots : \A q \in Slots :
    CartsOverlapped(r, q) =>
      /\ inflight[r].read = inflight[q].read
      /\ inflight[r].status = 200
      /\ users[1].cart = IF inflight[q].status = 200 THEN inflight[q].cart
                         ELSE inflight[r].cart

\* Both requests were answered 200 and the stored cart is neither of the
\* two carts that running them one after the other would have stored.
C22_Witness ==
  \E r \in Slots : \E q \in Slots :
    /\ CartsOverlapped(r, q)
    /\ inflight[r].status = 200 /\ inflight[q].status = 200
    /\ users[1].cart # OneAfterTheOther(r, q)
    /\ users[1].cart # OneAfterTheOther(q, r)

\* The order the handler built is among the stored orders.
OrderPersisted(handler) ==
  /\ handler.order # None
  /\ \E k \in 1..Len(orders) : orders[k] = handler.order[1]

\* The handler wrote its order and then stopped or failed before the cart
\* was cleared.
StoppedAfterOrderWrite(handler) ==
  /\ handler.op = "POST /api/orders"
  /\ \/ handler.pc = "stopped"
     \/ handler.pc = "done" /\ handler.error = "VersionError"

\* C23: a POST /api/orders that stops or fails after the order write and
\* before the cart-clear write leaves its order stored; the step in which
\* it stops or fails writes nothing (the cart it read is still stored
\* unless another request changed it), the handler takes no step after it,
\* and no step ever removes a stored order.
C23_NoCompensation ==
  /\ [](\A r \in Slots : StoppedAfterOrderWrite(inflight[r]) => OrderPersisted(inflight[r]))
  /\ [][\A r \in Slots :
          /\ (~StoppedAfterOrderWrite(inflight[r]) /\ StoppedAfterOrderWrite(inflight'[r]))
               => (inflight[r].pc = "clear" /\ users' = users /\ orders' = orders)
          /\ inflight[r].pc \in {"stopped", "done"} => inflight'[r] = inflight[r]
          /\ Len(orders') >= Len(orders)
          /\ \A k \in 1..Len(orders) : orders'[k] = orders[k]]_vars

\* The only request there was stopped after its order write: the order is
\* stored and the cart still holds the lines that were ordered.
C23_Witness ==
  \E r \in Slots :
    /\ inflight[r].op = "POST /api/orders" /\ inflight[r].pc = "stopped"
    /\ \A q \in Slots \ {r} : inflight[q].pc = "idle"
    /\ OrderPersisted(inflight[r])
    /\ users[1].cart # << >>
    /\ users[1].cart = inflight[r].read

CategoryUpdateRoutes == {"PATCH /api/categories/:id", "PUT /api/categories/:id (rev0)"}

\* The body of the update request has a value for the field.
Supplied(reply, field) ==
  CASE field = "parentId" ->
         reply.route = "PUT /api/categories/:id (rev0)" /\ reply.request.parentId # None
    [] field = "image" ->
         reply.route = "PATCH /api/categories/:id" /\ reply.request.image # None
    [] field = "isNav" ->
         reply.route = "PATCH /api/categories/:id" /\ reply.request.isNav # None

\* C24: an update of a category (PUT or PATCH /api/categories/:id) that is
\* answered 200 leaves parentId, image and isNav as stored unless the body
\* supplies them, and leaves the slug as stored unless the body's name
\* differs from the stored name; for an id no category has, a request with
\* a name is answered 404 and no category changes.
C24_UpdateIsPartial ==
  [][(last'.route \in CategoryUpdateRoutes /\ last'.ran) =>
       LET id == last'.request.id IN
       IF ~IsCategory(categories, id)
       THEN /\ categories' = categories
            /\ last'.request.name # None => last'.status = 404
       ELSE last'.status = 200 =>
              /\ Supplied(last', "parentId") \/ categories'[id].parentId = categories[id].parentId
              /\ Supplied(last', "image") \/ categories'[id].image = categories[id].image
              /\ Supplied(last', "isNav") \/ categories'[id].isNav = categories[id].isNav
              /\ \/ last'.request.name # None /\ last'.request.name[1] # categories[id].name
                 \/ categories'[id].slug = categories[id].slug]_vars

\* The two handlers are POST /api/orders requests with a complete shipping
\* address, both over, and handler q cleared (or tried to clear) the cart
\* after handler r had cleared it, having read it before.
OrdersOverlapped(r, q) ==
  /\ r # q
  /\ inflight[r].op = "POST /api/orders" /\ inflight[r].pc = "done"
  /\ inflight[q].op = "POST /api/orders" /\ inflight[q].pc = "done"
  /\ inflight[r].addressComplete /\ inflight[q].addressComplete
  /\ inflight[q].stale

\* Two orders are stored and they have the same items and totalAmount.
SameOrderTwice ==
  /\ Len(orders) = 2
  /\ orders[1].items = orders[2].items
  /\ orders[1].totalAmount = orders[2].totalAmount

\* C25 as stated: two POST /api/orders requests of one user that both read
\* the cart before either cleared it are both answered 201 and store two
\* orders with the same items and totalAmount.
C25_BothOrdersSucceed ==
  \A r \in Slots : \A q \in Slots :
    OrdersOverlapped(r, q) =>
      /\ inflight[r].status = 201 /\ inflight[q].status = 201
      /\ SameOrderTwice

\* C25: two POST /api/orders requests of one user that both read the cart
\* before either cleared it both store their order, with the same items
\* and totalAmount, and leave the cart empty; the one that clears the cart
\* first is answered 201, the other 201 or, when its save of the cleared
\* cart is refused as a version conflict, 500 with its order still stored.
C25_CartOrderedTwice ==
  \A r \in Slots : \A q \in Slots :
    OrdersOverlapped(r, q) =>
      /\ inflight[r].read = inflight[q].read
      /\ inflight[r].status = 201
      /\ \/ inflight[q].status = 201
         \/ inflight[q].status = 500 /\ inflight[q].error = "VersionError"
      /\ OrderPersisted(inflight[r]) /\ OrderPersisted(inflight[q])
      /\ SameOrderTwice
      /\ users[1].cart = << >>

\* Both requests are over and the one cart was stored as two orders with
\* the same lines.
C25_Witness ==
  \E r \in Slots : \E q \in Slots :
    /\ OrdersOverlapped(r, q)
    /\ SameOrderTwice
    /\ orders[1].items # << >>
    /\ Lines(orders[1].items) = Lines(inflight[q].read)

\* Some stored order has an item of the product.
Ordered(productId) ==
  \E k \in 1..Len(orders) : \E j \in 1..Len(orders[k].items) :
    orders[k].items[j].product = productId

\* Handler o is a POST /api/orders that went as far as the cart-clear
\* write; handler c is a POST /api/cart, answered 200, that added a line
\* of a product the cart did not have when o read it, and wrote it after o
\* had read the cart and before o cleared it.
LineAddedBeforeClear(o, c) ==
  /\ o # c
  /\ inflight[o].op = "POST /api/orders" /\ inflight[o].pc = "done"
  /\ inflight[o].status = 201 \/ inflight[o].error = "VersionError"
  /\ inflight[o].stale
  /\ inflight[c].op = "POST /api/cart" /\ inflight[c].pc = "done"
  /\ inflight[c].status = 200
  /\ ~HasLine(inflight[o].read, inflight[c].productId[1])
  /\ HasLine(inflight[c].cart, inflight[c].productId[1])

\* C26 as stated: a cart line written by a POST /api/cart after
\* POST /api/orders has read the cart and before it clears the cart is
\* removed by the cart-clear and is in no order.
C26_AddedLineIsLost ==
  \A o \in Slots : \A c \in Slots :
    LineAddedBeforeClear(o, c) =>
      /\ ~HasLine(users[1].cart, inflight[c].productId[1])
      /\ ~Ordered(inflight[c].productId[1])

\* C26: a cart line written by a POST /api/cart after POST /api/orders has
\* read the cart and before it clears the cart is in no order; either the
\* cart-clear is written, the order request is answered 201 and the cart
\* is empty, the added line gone with the ordered ones, or the cart-clear
\* is refused as a version conflict, the order request is answered 500
\* with its order stored, and the cart is the one the cart request wrote,
\* the ordered lines and the added line in it.
C26_AddedLineLostOrClearRefused ==
  \A o \in Slots : \A c \in Slots :
    LineAddedBeforeClear(o, c) =>
      /\ ~Ordered(inflight[c].productId[1])
      /\ OrderPersisted(inflight[o])
      /\ \/ inflight[o].status = 201 /\ users[1].cart = << >>
         \/ /\ inflight[o].status = 500 /\ inflight[o].error = "VersionError"
            /\ users[1].cart = inflight[c].cart

\* An order request is over whose cart was given a new line between its
\* read and its cart-clear; the order is stored without the added product.
C26_Witness ==
  \E o \in Slots : \E c \in Slots :
    /\ LineAddedBeforeClear(o, c)
    /\ OrderPersisted(inflight[o])
    /\ inflight[o].order[1].items # << >>
    /\ ~Ordered(inflight[c].productId[1])

\* C27: POST /jwt answers every email with a token for it, whether or not
\* a user has the email; a PATCH /api/users/:id/role sent with that token
\* passes the gate as that email and is never refused for who the caller
\* is (no 401, no 403): with a role of the enum and the id of a user it
\* answers 200 and sets that user's role, whatever the caller's own stored
\* role and even when the caller has no user record.
C27_RoleChangeIgnoresCallerRole ==
  /\ [](last.route = "POST /jwt" =>
          /\ last.status = 200
          /\ last.body = [token |-> Bearer(last.request.email)])
  /\ [][(/\ last.route = "POST /jwt"
          /\ last'.route = "PATCH /api/users/:id/role"
          /\ last'.auth = "valid") =>
          /\ last'.ran
          /\ last'.decoded = Some(last.request.email)
          /\ last'.status \notin {401, 403}
          /\ (/\ last'.request.role \in {Some("user"), Some("admin")}
              /\ last'.request.id \in 1..Len(users))
               => /\ last'.status = 200
                  /\ users'[last'.request.id].role = last'.request.role[1]]_vars

\* A caller whose email no user has was given a token and has just made a
\* user an admin.
C27_Witness ==
  /\ last.route = "PATCH /api/users/:id/role"
  /\ last.ran
  /\ last.status = 200
  /\ last.decoded = Some("c@x")
  /\ UsersWithEmail(users, "c@x") = {}
  /\ last.request.role = Some("admin")
  /\ users[last.request.id].role = "admin"

\* The user has a cart with lines, and the product of every line is
\* deleted.
NothingResolves(us, i) ==
  /\ us[i].cart # << >>
  /\ \A k \in 1..Len(us[i].cart) : ~products[us[i].cart[k].product].live

\* C28: POST /api/orders by a caller whose cart has lines none of whose
\* products resolves is never answered 400; it is answered 201 (500 only
\* when the order does not pass validation, and then nothing is written),
\* and with 201 an order of that user with no items and totalAmount 0 is
\* added and the cart is emptied.
C28_UnresolvedCartIsOrdered ==
  [][(/\ last'.route = "POST /api/orders"
      /\ last'.ran
      /\ \E i \in UsersWithEmail(users, last'.decoded[1]) : NothingResolves(users, i))
     => /\ last'.status \in {201, 500}
        /\ last'.status = 500 => (orders' = orders /\ users' = users)
        /\ last'.status = 201 =>
             \A i \in UsersWithEmail(users, last'.decoded[1]) :
               /\ orders' = Append(orders,
                                   [user |-> i, items |-> << >>, totalAmount |-> 0,
                                    paymentStatus |-> "pending", orderStatus |-> "pending"])
               /\ users' = [users EXCEPT ![i].cart = << >>]]_vars

\* Both products are deleted, and "a@x" has just been answered 201 for an
\* order that has no items and a totalAmount of 0.
C28_Witness ==
  /\ last.route = "POST /api/orders" /\ last.status = 201
  /\ last.decoded = Some("a@x")
  /\ \A p \in ProductIds : ~products[p].live
  /\ Len(orders) = 1
  /\ orders[1].items = << >> /\ orders[1].totalAmount = 0
  /\ users[1].cart = << >>
====
